---- MODULE Spec2Model ----
(***************************************************************************)
(* Set-associative storage engine of gem5 (pranith/gem5):                  *)
(*   - CacheLibrary<Entry>          src/base/cache_lib.hh                  *)
(*   - SimpleBTB over AssociativeCache<BTBEntry>                           *)
(*                                  src/cpu/pred/simple_btb.{hh,cc}        *)
(*   - BTBSetAssociative / SSITSetAssociative indexing policies            *)
(*                                  src/cpu/pred/btb_entry.hh,             *)
(*                                  src/cpu/o3/store_set.hh                *)
(* The replacement policy, TaggedEntry, log2i/isPowerOf2 and the base      *)
(* classes AssociativeCache / IndexingPolicyTemplate are not among the     *)
(* source files; they are modelled from the specification (sections 4.1,   *)
(* 4.2, 4.3-4.5, 6) and are marked so where they are defined.              *)
(***************************************************************************)
EXTENDS Integers, Sequences, FiniteSets, TLC

VARIABLES
    req,      \* the arguments the structure was constructed with
    kind,     \* which object exists: "none", "default" (default-constructed
              \* CacheLibrary), "CacheLibrary", "SimpleBTB", "SSIT", "BTBEntry",
              \* "destroyed"
    cfg,      \* the members set by the constructor (numEntries, numSets, shifts, masks)
    data,     \* data[set][way]: the entry (pointer) stored in each slot
    ent,      \* ent[id]: the fields of each allocated entry
    curTick,  \* the replacement policy's clock
    pend,     \* the victim handed out by findVictim and not yet filled
    err,      \* "none", or how the program was stopped: "assert", "panic", "fatal",
              \* "crash" (a signal), "hang" (a call that does not return)
    last,     \* the last call: its name, arguments, and what it returned / saw
    scen,     \* the keys of the set-overflow scenario, in the order of insertion
    pend2,    \* the victim handed to a second caller that interleaves with the first
    twin      \* a second cache of the same configuration, driven by the same calls

vars == <<req, kind, cfg, data, ent, curTick, pend, err, last, scen, pend2, twin>>
\* what no operation on a constructed structure changes (pend2: no operation
\* of a single caller)
built == <<req, kind, cfg, data, scen, pend2, twin>>
\* the same, without the second caller's victim
builtRace == <<req, kind, cfg, data, scen, twin>>

---------------------------------------------------------------------------
(* Bounds of the exploration *)

\* the replacement clock stops at MaxTick: at most MaxTick fills / touches in a run
MaxTick == 3

(* Input domains *)
\* addresses presented to the structures: three that share a set of a
\* two-set structure and differ in tag (0, 2, 4), and one of the other set
Addrs == {0, 1, 2, 4}
\* thread ids presented to the BTB
Tids == {0, 1}
\* payloads written by the consumer (BTB: branch targets)
Payloads == {1, 2}
\* the (target, instruction) pairs handed to SimpleBTB::update: two branches
\* that differ in both
Branches == {<<1, 2>>, <<2, 1>>}

---------------------------------------------------------------------------
(* Program constants *)

\* nullptr: no entry
NoEntry == 0
\* MaxAddr = (Addr)-1, the tag of an invalid entry; written as the all-ones
\* word, which no address of Addrs and no extracted tag equals
MaxAddr == 0 - 1
\* the thread id of an entry that update() never wrote (BTBEntry constructor)
InitTid == 0
\* StaticInstPtr nullptr / empty target
NullInst == 0
NoPayload == 0

NoPend == [key |-> [address |-> MaxAddr, tid |-> 0], id |-> NoEntry]

---------------------------------------------------------------------------
(* C++ integer operators on non-negative words *)

ShiftRight(a, s) == a \div (2 ^ s)
ShiftLeft(a, s) == a * (2 ^ s)

RECURSIVE BitAnd(_, _)
BitAnd(a, b) ==
    IF a = 0 \/ b = 0 THEN 0
    ELSE ((a % 2) * (b % 2)) + 2 * BitAnd(a \div 2, b \div 2)

RECURSIVE BitXor(_, _)
BitXor(a, b) ==
    IF a = 0 THEN b
    ELSE IF b = 0 THEN a
    ELSE (((a % 2) + (b % 2)) % 2) + 2 * BitXor(a \div 2, b \div 2)

\* isPowerOf2(n): n && !(n & (n - 1))
isPowerOf2(n) == n > 0 /\ BitAnd(n, n - 1) = 0

\* log2i(n): the base-2 logarithm of a power of two; the caller checks
\* log2iOk first (log2i asserts that its argument is a power of two)
RECURSIVE log2i(_)
log2i(n) == IF n <= 1 THEN 0 ELSE 1 + log2i(n \div 2)
log2iOk(n) == isPowerOf2(n)

---------------------------------------------------------------------------
(* Entries *)

\* new Entry(): TaggedEntry / BTBEntry constructor, then
\* replPolicy->instantiateEntry()
NewEntry ==
    [valid |-> FALSE, tag |-> MaxAddr, tid |-> InitTid, lastTouchTick |-> 0,
     payload |-> NoPayload, inst |-> NullInst]

Key(a, t) == [address |-> a, tid |-> t]

---------------------------------------------------------------------------
(* Construction *)

\* what a member that no constructor initialised may hold: zero, a small value
\* and the word with every bit set stand for the indeterminate values
UninitValues == {0, 1, MaxAddr}

\* CacheLibrary() {}: numEntries, _associativity, entrySize, numSets, setShift,
\* setMask, tagShift and tagMask are left uninitialised (the thread shift
\* belongs to the BTB's indexing policy, which does not exist yet)
DefaultCfgs ==
    [numEntries : UninitValues, assoc : UninitValues, entrySize : UninitValues,
     numSets : UninitValues, setShift : UninitValues, setMask : UninitValues,
     tagShift : UninitValues, tagMask : UninitValues, log2NumThreads : {0}]

\* the set grid built by the loops of initParams: one new Entry per slot
NewData(num_sets, assoc) ==
    [s \in 0..(num_sets - 1) |-> [w \in 1..assoc |-> s * assoc + w]]
NewEnt(num_sets, assoc) == [id \in 1..(num_sets * assoc) |-> NewEntry]

\* (mutant) initParams that takes log2i of the entry size only
initParamsOk_EntrySizeOnly(num_sets, assoc, entry_size, num_tag_bits) ==
    log2iOk(entry_size)

\* CacheLibrary::initParams. The grid is allocated first; log2i then stops the
\* program when the entry size or the number of sets is no power of two.
initParamsOk(num_sets, assoc, entry_size, num_tag_bits) ==
    log2iOk(entry_size) /\ log2iOk(num_sets)

initParams(num_entries, num_sets, assoc, entry_size, num_tag_bits) ==
    [numEntries |-> num_entries, assoc |-> assoc, entrySize |-> entry_size,
     numSets |-> num_sets,
     setShift |-> log2i(entry_size),
     setMask |-> num_sets - 1,
     tagShift |-> log2i(entry_size) + log2i(num_sets),
     tagMask |-> ShiftLeft(1, num_tag_bits) - 1,
     log2NumThreads |-> 0]

\* CacheLibrary::CacheLibrary and CacheLibrary::init: numSets is the integer
\* quotient num_entries / associativity, handed to initParams with no other check
CacheLibraryNew(num_entries, assoc, entry_size, num_tag_bits) ==
    LET num_sets == num_entries \div assoc IN
    IF initParamsOk(num_sets, assoc, entry_size, num_tag_bits)
    THEN [err |-> "none", kind |-> "CacheLibrary",
          cfg |-> initParams(num_entries, num_sets, assoc, entry_size, num_tag_bits),
          data |-> NewData(num_sets, assoc), ent |-> NewEnt(num_sets, assoc)]
    ELSE [err |-> "assert", kind |-> "none",
          data |-> NewData(0, 0), ent |-> NewEnt(0, 0)]

\* AssociativeCache<BTBEntry>::AssociativeCache with the BTBSetAssociative policy
\* (IndexingPolicyTemplate constructor, then setNumThreads)
AssociativeCacheOk(num_entries, assoc, num_threads) ==
    /\ num_entries % assoc = 0
    /\ isPowerOf2(num_entries \div assoc)
    /\ log2iOk(num_threads)

\* SimpleBTB::SimpleBTB: the member btb is built, then numEntries must be a
\* power of two
SimpleBTBOk(num_entries, assoc, num_threads) ==
    /\ AssociativeCacheOk(num_entries, assoc, num_threads)
    /\ isPowerOf2(num_entries)

SimpleBTBNew(num_entries, assoc, set_shift, num_threads) ==
    LET num_sets == num_entries \div assoc IN
    IF SimpleBTBOk(num_entries, assoc, num_threads)
    THEN [err |-> "none", kind |-> "SimpleBTB",
          cfg |-> [numEntries |-> num_entries, assoc |-> assoc, entrySize |-> 0,
                   numSets |-> num_sets, setShift |-> set_shift,
                   setMask |-> num_sets - 1,
                   tagShift |-> set_shift + log2i(num_sets),
                   tagMask |-> 0,
                   log2NumThreads |-> log2i(num_threads)],
          data |-> NewData(num_sets, assoc), ent |-> NewEnt(num_sets, assoc)]
    ELSE [err |-> "fatal", kind |-> "none",
          data |-> NewData(0, 0), ent |-> NewEnt(0, 0)]

\* AssociativeCache<SSITEntry> with the SSITSetAssociative policy (StoreSet's SSIT)
SSITNew(num_entries, assoc, set_shift) ==
    LET num_sets == num_entries \div assoc IN
    IF AssociativeCacheOk(num_entries, assoc, 1)
    THEN [err |-> "none", kind |-> "SSIT",
          cfg |-> [numEntries |-> num_entries, assoc |-> assoc, entrySize |-> 0,
                   numSets |-> num_sets, setShift |-> set_shift,
                   setMask |-> num_sets - 1,
                   tagShift |-> set_shift + log2i(num_sets),
                   tagMask |-> 0, log2NumThreads |-> 0],
          data |-> NewData(num_sets, assoc), ent |-> NewEnt(num_sets, assoc)]
    ELSE [err |-> "fatal", kind |-> "none",
          data |-> NewData(0, 0), ent |-> NewEnt(0, 0)]

\* a construction request: which structure, and its parameters
Build(c) ==
    IF c.kind = "CacheLibrary"
    THEN CacheLibraryNew(c.numEntries, c.assoc, c.entrySize, c.tagBits)
    ELSE IF c.kind = "SimpleBTB"
    THEN SimpleBTBNew(c.numEntries, c.assoc, c.setShift, c.numThreads)
    ELSE SSITNew(c.numEntries, c.assoc, c.setShift)

Request(k, n, a, es, tb, ss, nt) ==
    [kind |-> k, numEntries |-> n, assoc |-> a, entrySize |-> es, tagBits |-> tb,
     setShift |-> ss, numThreads |-> nt]

---------------------------------------------------------------------------
(* Indexing *)

\* CacheLibrary::getIndex
getIndex(addr) == BitAnd(ShiftRight(addr, cfg.setShift), cfg.setMask)

\* CacheLibrary::getTag
getTag(addr) == BitAnd(ShiftRight(addr, cfg.tagShift), cfg.tagMask)

\* CacheLibrary::getEntriesByIndex
getEntriesByIndex(index) == data[index]

\* (mutant) extractSet that shifts the thread id by log2NumThreads
extractSet_ShiftByThreads(key) ==
    BitAnd(BitXor(ShiftRight(key.address, cfg.setShift),
                  ShiftLeft(key.tid, cfg.log2NumThreads)),
           cfg.setMask)

\* (mutant) extractSet that ignores the thread id
extractSet_NoThread(key) ==
    BitAnd(ShiftRight(key.address, cfg.setShift), cfg.setMask)

\* (mutant) extractSet without the final mask
extractSet_NoMask(key) ==
    BitXor(ShiftRight(key.address, cfg.setShift),
           ShiftLeft(key.tid, cfg.tagShift - cfg.setShift - cfg.log2NumThreads))

\* BTBSetAssociative::extractSet
extractSet(key) ==
    BitAnd(BitXor(ShiftRight(key.address, cfg.setShift),
                  ShiftLeft(key.tid, cfg.tagShift - cfg.setShift - cfg.log2NumThreads)),
           cfg.setMask)

\* IndexingPolicyTemplate::extractTag, called through genTagExtractor
extractTag(addr) == ShiftRight(addr, cfg.tagShift)

\* SSITSetAssociative::extractSet
extractSetSSIT(key) == BitAnd(ShiftRight(key.address, cfg.setShift), cfg.setMask)

\* BTBSetAssociative::getPossibleEntries / SSITSetAssociative::getPossibleEntries
getPossibleEntries(key) ==
    IF kind = "SimpleBTB" THEN data[extractSet(key)] ELSE data[extractSetSSIT(key)]

\* the set a key maps to and the tag it is stored under, per structure
SetOf(key) ==
    IF kind = "CacheLibrary" THEN getIndex(key.address)
    ELSE IF kind = "SimpleBTB" THEN extractSet(key)
    ELSE extractSetSSIT(key)
TagOf(key) ==
    IF kind = "CacheLibrary" THEN getTag(key.address) ELSE extractTag(key.address)
Candidates(key) ==
    IF kind = "CacheLibrary" THEN getEntriesByIndex(getIndex(key.address))
    ELSE getPossibleEntries(key)

---------------------------------------------------------------------------
(* Replacement policy: least recently used *)

\* replPolicy->touch / replPolicy->reset: stamp the entry with the clock
replTouch(e, t) == [e EXCEPT !.lastTouchTick = t]
replReset(e, t) == [e EXCEPT !.lastTouchTick = t]
\* replPolicy->invalidate: minimum retention priority
replInvalidate(e) == [e EXCEPT !.lastTouchTick = 0]

\* replPolicy->getVictim: the first candidate, in way order, with the oldest stamp
getVictim(E, candidates) ==
    LET w == CHOOSE i \in DOMAIN candidates :
                 /\ \A j \in DOMAIN candidates :
                        E[candidates[i]].lastTouchTick <= E[candidates[j]].lastTouchTick
                 /\ \A j \in DOMAIN candidates :
                        j < i => E[candidates[j]].lastTouchTick
                                     > E[candidates[i]].lastTouchTick
    IN candidates[w]

---------------------------------------------------------------------------
(* Entry methods *)

\* TaggedEntry::matchTag / CacheEntry::match
matchTag(e, tag) == e.valid /\ e.tag = tag

\* (mutant) BTBEntry::match that compares the tag and not the thread id
match_IgnoresTid(e, key) == e.valid /\ e.tag = extractTag(key.address)

\* (mutant) BTBEntry::match that does not ask isValid()
match_NoValidCheck(e, key) == e.tag = extractTag(key.address) /\ e.tid = key.tid

\* BTBEntry::match(const KeyType &)
match(e, key) == (e.valid /\ e.tag = extractTag(key.address)) /\ e.tid = key.tid

\* does entry e answer to key, per structure
Matches(e, key) ==
    IF kind = "SimpleBTB" THEN match(e, key) ELSE matchTag(e, TagOf(key))

\* (mutant) Entry::insert that sets the valid bit and forgets setTag
entryInsert_ValidOnly(e, tag) == [e EXCEPT !.valid = TRUE]

\* Entry::insert after its assertion !isValid(): setValid, setTag
entryInsert(e, tag) == [e EXCEPT !.valid = TRUE, !.tag = tag]

\* (mutant) Entry::invalidate that clears the tag and leaves the valid bit
entryInvalidate_TagOnly(e) == [e EXCEPT !.tag = MaxAddr]

\* Entry::invalidate: valid = false, setTag(MaxAddr)
entryInvalidate(e) == [e EXCEPT !.valid = FALSE, !.tag = MaxAddr]

\* BTBEntry::update(tid, target, inst)
entryUpdate(e, tid, target, inst) ==
    [e EXCEPT !.tid = tid, !.payload = target, !.inst = inst]

---------------------------------------------------------------------------
(* Engine methods, as functions of the entry store E *)

\* (mutant) findEntry whose loop keeps going and returns the last match
findEntryIn_LastMatch(E, key) ==
    LET c == Candidates(key)
        hits == {i \in DOMAIN c : Matches(E[c[i]], key)}
    IN IF hits = {} THEN NoEntry
       ELSE c[CHOOSE i \in hits : \A j \in hits : i >= j]

\* findEntry: the first candidate, in way order, that matches; nullptr if none
findEntryIn(E, key) ==
    LET c == Candidates(key)
        hits == {i \in DOMAIN c : Matches(E[c[i]], key)}
    IN IF hits = {} THEN NoEntry
       ELSE c[CHOOSE i \in hits : \A j \in hits : i <= j]
findEntry(key) == findEntryIn(ent, key)

\* (mutant) invalidate that forgets replPolicy->invalidate
invalidate_NoReplInvalidate(E, id) == [E EXCEPT ![id] = entryInvalidate(E[id])]

\* invalidate(entry): entry->invalidate(), then replPolicy->invalidate
invalidate(E, id) == [E EXCEPT ![id] = replInvalidate(entryInvalidate(E[id]))]

\* (mutant) findVictim that takes its candidates from the neighbouring set
victimOf_NextSet(E, key) ==
    getVictim(E, data[(SetOf(key) + 1) % cfg.numSets])

\* (mutant) findVictim that asks the policy only while the set has an invalid
\* way, and takes the last way of a full set
victimOf_LastWayWhenFull(E, key) ==
    IF \E w \in DOMAIN Candidates(key) : ~E[Candidates(key)[w]].valid
    THEN getVictim(E, Candidates(key))
    ELSE Candidates(key)[Len(Candidates(key))]

\* findVictim: the policy's choice among the candidates of the key's set
victimOf(E, key) == getVictim(E, Candidates(key))

\* (mutant) insertEntry that forgets replPolicy->reset
insertEntry_NoReset(E, key, id, t) ==
    [E EXCEPT ![id] = entryInsert(E[id], TagOf(key))]

\* insertEntry: entry->insert(tag), then replPolicy->reset
insertEntry(E, key, id, t) ==
    [E EXCEPT ![id] = replReset(entryInsert(E[id], TagOf(key)), t)]

\* (mutant) clear whose inner loop stops one way short
clear_SkipLastWay(E) ==
    [id \in DOMAIN E |->
        IF \E s \in DOMAIN data : data[s][cfg.assoc] = id THEN E[id]
        ELSE replInvalidate(entryInvalidate(E[id]))]

\* clear: invalidate every entry of every set
clear(E) == [id \in DOMAIN E |-> replInvalidate(entryInvalidate(E[id]))]

\* a set has an invalid way
HasInvalid(E, s) == \E w \in DOMAIN data[s] : ~E[data[s][w]].valid

---------------------------------------------------------------------------
(* The record of the last call *)

NoKey == Key(MaxAddr, 0)
Call(op, key, ret) ==
    [op |-> op, key |-> key, ret |-> ret, returned |-> TRUE, upd |-> FALSE,
     hit |-> FALSE, second |-> FALSE,
     payload |-> NoPayload, inst |-> NullInst,
     vValid |-> FALSE, vTag |-> MaxAddr, vTid |-> InitTid, hadInvalid |-> FALSE]

\* what findVictim saw of its victim before invalidating it
Saw(c, E, key, v) ==
    [c EXCEPT !.vValid = E[v].valid, !.vTag = E[v].tag, !.vTid = E[v].tid,
              !.hadInvalid = HasInvalid(E, SetOf(key))]

Generic == kind \in {"CacheLibrary", "SSIT"}
EntriesIn(s) == {data[s][w] : w \in DOMAIN data[s]}
\* keys presented to the BTB: the addresses for thread 0, and for thread 1 the
\* same address as a thread-0 key (0) and an address that falls in the set and
\* under the tag of a thread-0 key (1)
BTBKeys == {Key(a, 0) : a \in Addrs \ {1}} \cup {Key(0, 1), Key(1, 1)}
KeysOf(k) == IF k = "SimpleBTB" THEN BTBKeys ELSE {Key(a, 0) : a \in Addrs}

---------------------------------------------------------------------------
(* Operations of CacheLibrary (and of AssociativeCache under the SSIT) *)

\* findEntry(addr, updateRepl) / accessEntry: lookup, touching the hit if asked
FindEntry(key, updateRepl) ==
    /\ err = "none" /\ Generic
    /\ (updateRepl /\ findEntry(key) # NoEntry) => curTick < MaxTick
    /\ LET id == findEntry(key)
           touched == id # NoEntry /\ updateRepl
       IN /\ ent' = IF touched
                    THEN [ent EXCEPT ![id] = replTouch(ent[id], curTick + 1)]
                    ELSE ent
          /\ curTick' = IF touched THEN curTick + 1 ELSE curTick
          /\ last' = [Call("findEntry", key, id) EXCEPT !.upd = updateRepl]
    /\ UNCHANGED <<built, pend, err>>

\* isEntryValid(addr): findEntry(addr) without touching; entry && entry->isValid()
IsEntryValid(key) ==
    /\ err = "none" /\ Generic
    /\ LET entry == findEntry(key)
       IN last' = [Call("isEntryValid", key, entry)
                      EXCEPT !.hit = (entry # NoEntry /\ ent[entry].valid)]
    /\ UNCHANGED <<built, ent, curTick, pend, err>>

\* findVictim(addr): choose, invalidate, return
FindVictim(key) ==
    /\ err = "none" /\ Generic
    /\ pend = NoPend
    /\ LET v == victimOf(ent, key)
       IN /\ ent' = invalidate(ent, v)
          /\ pend' = [key |-> key, id |-> v]
          /\ last' = Saw(Call("findVictim", key, v), ent, key, v)
    /\ UNCHANGED <<built, curTick, err>>

\* insertEntry(addr, victim) for the victim of the preceding findVictim(addr):
\* entry->insert(tag), replPolicy->reset; the payload stays what it was
InsertEntry ==
    /\ err = "none" /\ Generic
    /\ pend # NoPend
    /\ curTick < MaxTick
    /\ IF ent[pend.id].valid
       THEN /\ err' = "assert"
            /\ UNCHANGED <<ent, curTick>>
       ELSE /\ ent' = insertEntry(ent, pend.key, pend.id, curTick + 1)
            /\ curTick' = curTick + 1
            /\ err' = err
    /\ pend' = NoPend
    /\ last' = [Call("insertEntry", pend.key, pend.id)
                   EXCEPT !.returned = ~ent[pend.id].valid]
    /\ UNCHANGED built

\* the caller writes its payload through the pointer insertEntry has just
\* returned (in SimpleBTB::update: victim->update)
WritePayload(p) ==
    /\ err = "none" /\ Generic
    /\ last.op = "insertEntry" /\ last.returned
    /\ ent' = [ent EXCEPT ![last.ret].payload = p]
    /\ last' = [Call("write", last.key, last.ret)
                   EXCEPT !.payload = p, !.second = last.second]
    /\ UNCHANGED <<built, curTick, pend, err>>

\* invalidate(entry) on any entry of the cache
Invalidate(id) ==
    /\ err = "none" /\ Generic
    /\ ent' = invalidate(ent, id)
    /\ last' = Call("invalidate", NoKey, id)
    /\ UNCHANGED <<built, curTick, pend, err>>

\* how the loops `for (auto idx = 0; idx < numSets; idx++) for (auto assoc = 0;
\* assoc < _associativity; assoc++)` of clear and of ~CacheLibrary end on a
\* default-constructed object, whose grid is empty and whose bounds are
\* indeterminate. A non-zero numSets with a non-zero associativity reads past
\* the empty grid and the program crashes. With associativity 0 the body never
\* runs and the int counter idx is compared with the size_t numSets: for a
\* numSets above INT_MAX (MaxAddr stands for these) idx overflows, which is
\* undefined; the build either wraps idx and leaves the loop, or counts on in
\* a wide register and does not return.
gridLoopOutcomes(c) ==
    IF c.numSets = 0 THEN {"none"}
    ELSE IF c.assoc # 0 THEN {"crash"}
    ELSE IF c.numSets = MaxAddr THEN {"none", "hang"}
    ELSE {"none"}

\* clear(), on a cache and on a default-constructed CacheLibrary
Clear ==
    /\ err = "none" /\ (Generic \/ kind = "default")
    /\ IF kind = "default"
       THEN \E outcome \in gridLoopOutcomes(cfg) :
               /\ err' = outcome
               /\ ent' = ent
               /\ last' = [Call("clear", NoKey, NoEntry)
                              EXCEPT !.returned = (outcome = "none")]
       ELSE /\ err' = err
            /\ ent' = clear(ent)
            /\ last' = [Call("clear", NoKey, NoEntry)
                           EXCEPT !.vValid = \E id \in DOMAIN ent : ent[id].valid]
    /\ UNCHANGED <<built, curTick, pend>>

---------------------------------------------------------------------------
(* Operations of SimpleBTB *)

\* SimpleBTB::update: findVictim, insertEntry, victim->update
Update(key, target, inst) ==
    /\ err = "none" /\ kind = "SimpleBTB"
    /\ curTick < MaxTick
    /\ LET v == victimOf(ent, key)
           E1 == invalidate(ent, v)
       IN /\ IF E1[v].valid
             THEN /\ err' = "assert"
                  /\ ent' = E1
                  /\ curTick' = curTick
             ELSE /\ ent' = [insertEntry(E1, key, v, curTick + 1)
                                EXCEPT ![v] = entryUpdate(@, key.tid, target, inst)]
                  /\ curTick' = curTick + 1
                  /\ err' = err
          /\ last' = [Saw(Call("update", key, v), ent, key, v)
                         EXCEPT !.payload = target, !.inst = inst,
                                !.returned = ~E1[v].valid]
    /\ UNCHANGED <<built, pend>>

\* SimpleBTB::lookup: accessEntry (findEntry, touch on a hit), the target or nullptr
Lookup(key) ==
    /\ err = "none" /\ kind = "SimpleBTB"
    /\ findEntry(key) # NoEntry => curTick < MaxTick
    /\ LET id == findEntry(key)
       IN /\ ent' = IF id # NoEntry
                    THEN [ent EXCEPT ![id] = replTouch(ent[id], curTick + 1)]
                    ELSE ent
          /\ curTick' = IF id # NoEntry THEN curTick + 1 ELSE curTick
          /\ last' = [Call("lookup", key, id) EXCEPT
                         !.upd = TRUE,
                         !.payload = IF id # NoEntry THEN ent[id].payload ELSE NoPayload]
    /\ UNCHANGED <<built, pend, err>>

\* SimpleBTB::valid: findEntry(key) != nullptr
Valid(key) ==
    /\ err = "none" /\ kind = "SimpleBTB"
    /\ last' = [Call("valid", key, findEntry(key))
                   EXCEPT !.hit = (findEntry(key) # NoEntry)]
    /\ UNCHANGED <<built, ent, curTick, pend, err>>

\* (mutant) getInst that goes through accessEntry, as lookup does
GetInst_Touching(key) ==
    /\ err = "none" /\ kind = "SimpleBTB"
    /\ findEntry(key) # NoEntry => curTick < MaxTick
    /\ LET id == findEntry(key)
       IN /\ ent' = IF id # NoEntry
                    THEN [ent EXCEPT ![id] = replTouch(ent[id], curTick + 1)]
                    ELSE ent
          /\ curTick' = IF id # NoEntry THEN curTick + 1 ELSE curTick
          /\ last' = [Call("getInst", key, id) EXCEPT
                         !.inst = IF id # NoEntry THEN ent[id].inst ELSE NullInst]
    /\ UNCHANGED <<built, pend, err>>

\* SimpleBTB::getInst: the instruction of the entry found, or nullptr
GetInst(key) ==
    /\ err = "none" /\ kind = "SimpleBTB"
    /\ LET id == findEntry(key)
       IN last' = [Call("getInst", key, id) EXCEPT
                      !.inst = IF id # NoEntry THEN ent[id].inst ELSE NullInst]
    /\ UNCHANGED <<built, ent, curTick, pend, err>>

\* SimpleBTB::memInvalidate: btb.clear()
MemInvalidate ==
    /\ err = "none" /\ kind = "SimpleBTB"
    /\ ent' = clear(ent)
    /\ last' = [Call("memInvalidate", NoKey, NoEntry)
                   EXCEPT !.vValid = \E id \in DOMAIN ent : ent[id].valid]
    /\ UNCHANGED <<built, curTick, pend, err>>

\* BTBSetAssociative::setNumThreads(num_threads), a public method of the
\* indexing policy of a BTB in use: log2NumThreads = log2i(num_threads). No
\* entry moves; the keys of the other threads map to other sets from now on.
SetNumThreads(num_threads) ==
    /\ err = "none" /\ kind = "SimpleBTB"
    /\ IF log2iOk(num_threads)
       THEN /\ cfg' = [cfg EXCEPT !.log2NumThreads = log2i(num_threads)]
            /\ err' = err
       ELSE /\ cfg' = cfg
            /\ err' = "assert"
    /\ last' = [Call("setNumThreads", NoKey, num_threads)
                   EXCEPT !.returned = log2iOk(num_threads)]
    /\ UNCHANGED <<req, kind, data, scen, pend2, twin, ent, curTick, pend>>

---------------------------------------------------------------------------
(* Address reconstruction *)

\* (mutant) regenerateAddr whose panic does not stop it: return 0 is reached
regenerateAddr_ReturnsZero(key, id) == [returned |-> TRUE, addr |-> 0]

\* BTBSetAssociative::regenerateAddr / SSITSetAssociative::regenerateAddr:
\* panic(); the return statement after it is never reached
regenerateAddr(key, id) == [returned |-> FALSE, addr |-> MaxAddr]

RegenerateAddr(key, id) ==
    /\ err = "none" /\ kind \in {"SimpleBTB", "SSIT"}
    /\ LET r == regenerateAddr(key, id)
       IN /\ err' = IF r.returned THEN err ELSE "panic"
          /\ last' = [Call("regenerateAddr", key, r.addr) EXCEPT
                         !.returned = r.returned]
    /\ UNCHANGED <<built, ent, curTick, pend>>

---------------------------------------------------------------------------
(* Construction as an operation *)

NoReq == Request("none", 0, 0, 0, 0, 0, 0)
NoScen == <<>>
\* no second cache
NoTwin == <<>>

\* no object: before a constructor runs, and after the program stopped in one
NoObject == <<>>
Absent ==
    /\ req = NoReq /\ kind = "none" /\ cfg = NoObject
    /\ data = NewData(0, 0) /\ ent = NewEnt(0, 0)
    /\ curTick = 0 /\ pend = NoPend /\ pend2 = NoPend /\ err = "none"
    /\ last = Call("none", NoKey, NoEntry)

\* the default-constructed object: an empty grid, the scalar members
\* indeterminate
Unbuilt ==
    /\ req = NoReq /\ kind = "default" /\ cfg \in DefaultCfgs
    /\ data = NewData(0, 0) /\ ent = NewEnt(0, 0)
    /\ curTick = 0 /\ pend = NoPend /\ pend2 = NoPend /\ err = "none"
    /\ last = Call("none", NoKey, NoEntry)

\* the effect of a constructor (or of init) called with request c; when
\* initParams stops the program no object is left to read
Constructed(c, op) ==
    LET b == Build(c) IN
    /\ req' = c
    /\ kind' = b.kind /\ data' = b.data /\ ent' = b.ent
    /\ cfg' = IF b.err = "none" THEN b.cfg ELSE NoObject
    /\ err' = b.err
    /\ last' = [Call(op, NoKey, NoEntry) EXCEPT !.returned = (b.err = "none")]
    /\ UNCHANGED <<curTick, pend, scen, pend2, twin>>

\* CacheLibrary::CacheLibrary(...), SimpleBTB::SimpleBTB(p), StoreSet's SSIT
Construct(c) ==
    /\ kind = "none" /\ err = "none"
    /\ Constructed(c, "new")

\* CacheLibrary::init on a default-constructed CacheLibrary
InitParams(c) ==
    /\ kind = "default" /\ err = "none"
    /\ c.kind = "CacheLibrary"
    /\ Constructed(c, "init")

\* ~CacheLibrary: delete data[idx][assoc] for idx < numSets, assoc <
\* _associativity; on a constructed cache every slot holds an entry
Destruct ==
    /\ err = "none" /\ kind \in {"default", "CacheLibrary"}
    /\ \E outcome \in
          (IF kind = "CacheLibrary" THEN {"none"} ELSE gridLoopOutcomes(cfg)) :
          /\ err' = outcome
          /\ last' = [Call("delete", NoKey, NoEntry)
                         EXCEPT !.returned = (outcome = "none")]
    /\ kind' = "destroyed"
    /\ data' = NewData(0, 0) /\ ent' = NewEnt(0, 0)
    /\ UNCHANGED <<req, cfg, curTick, pend, scen, pend2, twin>>

---------------------------------------------------------------------------
(* Specification: the operations on a constructed structure *)

\* the configurations explored by Spec
\* thread counts handed to setNumThreads on the BTB of MainConfigs: no more
\* threads than it has sets
ThreadCounts == {1, 2}

MainConfigs ==
    { Request("CacheLibrary", 4, 2, 1, 2, 0, 1),
      Request("SimpleBTB", 4, 2, 0, 0, 0, 2),
      Request("SSIT", 2, 2, 0, 0, 0, 1) }

Built(c) ==
    LET b == Build(c) IN
    /\ req = c
    /\ kind = b.kind /\ cfg = b.cfg /\ data = b.data /\ ent = b.ent
    /\ err = b.err
    /\ curTick = 0
    /\ pend = NoPend
    /\ pend2 = NoPend
    /\ last = Call("new", NoKey, NoEntry)

Init ==
    /\ \E c \in MainConfigs : Built(c)
    /\ scen = NoScen /\ twin = NoTwin

Next ==
    \/ \E key \in KeysOf(kind), u \in BOOLEAN : FindEntry(key, u)
    \/ \E key \in KeysOf(kind) : IsEntryValid(key)
    \/ \E key \in KeysOf(kind) : FindVictim(key)
    \/ InsertEntry
    \/ \E p \in Payloads : WritePayload(p)
    \/ \E id \in DOMAIN ent : Invalidate(id)
    \/ Clear
    \/ \E key \in KeysOf(kind), b \in Branches : Update(key, b[1], b[2])
    \/ \E key \in KeysOf(kind) : Lookup(key)
    \/ \E key \in KeysOf(kind) : Valid(key)
    \/ \E key \in KeysOf(kind) : GetInst(key)
    \/ MemInvalidate
    \/ \E n \in ThreadCounts : SetNumThreads(n)

Spec == Init /\ [][Next]_vars

---------------------------------------------------------------------------
(* Specification: construction with every request up to the bounds *)

\* requests ask for 0..MaxCfgEntries entries and 1..MaxCfgAssoc ways
MaxCfgEntries == 8
MaxCfgAssoc == 4

\* entry sizes and thread counts handed to log2i are powers of two
CfgRequests ==
    {Request("CacheLibrary", n, a, es, tb, 0, 1) :
        n \in 0..MaxCfgEntries, a \in 1..MaxCfgAssoc, es \in {1, 2, 4}, tb \in {1, 2}}
    \cup
    {Request(k, n, a, 0, 0, ss, nt) :
        k \in {"SimpleBTB", "SSIT"}, n \in 0..MaxCfgEntries, a \in 1..MaxCfgAssoc,
        ss \in {0, 1}, nt \in {1, 2}}

InitCfg == (Absent \/ Unbuilt) /\ scen = NoScen /\ twin = NoTwin

NextCfg ==
    \/ \E c \in CfgRequests : Construct(c)
    \/ \E c \in CfgRequests : InitParams(c)
    \/ Clear
    \/ Destruct

SpecCfg == InitCfg /\ [][NextCfg]_vars

---------------------------------------------------------------------------
(* Specification: address reconstruction on a structure in use *)

NextRegen ==
    \/ \E key \in KeysOf(kind) : FindVictim(key)
    \/ InsertEntry
    \/ \E key \in KeysOf(kind), b \in Branches : Update(key, b[1], b[2])
    \/ \E key \in KeysOf(kind), id \in DOMAIN ent : RegenerateAddr(key, id)

SpecRegen == Init /\ [][NextRegen]_vars

---------------------------------------------------------------------------
(* Specification: overflowing one set *)

\* scenario addresses are 0..MaxScenAddr
MaxScenAddr == 15

\* the caches of the scenario: associativity 2 with 4 sets (8 entries), and
\* the direct-mapped cache with 4 sets
ScenConfigs ==
    { Request("CacheLibrary", 8, 2, 1, 2, 0, 1),
      Request("CacheLibrary", 4, 1, 1, 2, 0, 1) }

\* assoc + 1 addresses of one set with pairwise distinct tags
ScenKeys ==
    {ks \in [1..(cfg.assoc + 1) -> 0..MaxScenAddr] :
        /\ \A i, j \in DOMAIN ks : getIndex(ks[i]) = getIndex(ks[j])
        /\ \A i, j \in DOMAIN ks : i # j => getTag(ks[i]) # getTag(ks[j])}

InitScen ==
    /\ \E c \in ScenConfigs : Built(c)
    /\ scen \in ScenKeys
    /\ twin = NoTwin

\* the next insertion of the script: findVictim for the next key ...
ScenFindVictim ==
    /\ pend = NoPend
    /\ curTick < Len(scen)
    /\ FindVictim(Key(scen[curTick + 1], 0))

\* ... and insertEntry on the victim it returned
ScenInsertEntry == InsertEntry

NextScen ==
    \/ ScenFindVictim
    \/ ScenInsertEntry

SpecScen == InitScen /\ [][NextScen]_vars

---------------------------------------------------------------------------
(* Specification: two callers interleave their findVictim / insertEntry pairs *)

\* (mutant) setValid without its assertion
setValidOk_NoAssert(e) == TRUE

\* TaggedEntry::setValid / BTBEntry::setValid: assert(!isValid())
setValidOk(e) == ~e.valid

\* the second caller's findVictim for a key of the set of the first caller's
\* key, issued while the first caller's victim is not filled yet
RaceFindVictim(key) ==
    /\ err = "none" /\ Generic
    /\ pend # NoPend /\ pend2 = NoPend
    /\ SetOf(key) = SetOf(pend.key)
    /\ LET v == victimOf(ent, key)
       IN /\ ent' = invalidate(ent, v)
          /\ pend2' = [key |-> key, id |-> v]
          /\ last' = [Saw(Call("findVictim", key, v), ent, key, v)
                         EXCEPT !.second = TRUE]
    /\ UNCHANGED <<builtRace, curTick, pend, err>>

\* the second caller's insertEntry, after the first caller's
RaceInsertEntry ==
    /\ err = "none" /\ Generic
    /\ pend = NoPend /\ pend2 # NoPend
    /\ curTick < MaxTick
    /\ IF setValidOk(ent[pend2.id])
       THEN /\ ent' = insertEntry(ent, pend2.key, pend2.id, curTick + 1)
            /\ curTick' = curTick + 1
            /\ err' = err
       ELSE /\ err' = "assert"
            /\ UNCHANGED <<ent, curTick>>
    /\ pend2' = NoPend
    /\ last' = [Call("insertEntry", pend2.key, pend2.id)
                   EXCEPT !.second = TRUE,
                          !.returned = setValidOk(ent[pend2.id])]
    /\ UNCHANGED <<builtRace, pend>>

\* the first caller's findVictim: no other caller holds a victim
FirstFindVictim(key) ==
    /\ pend2 = NoPend
    /\ FindVictim(key)

NextRace ==
    \/ \E key \in KeysOf(kind) : FirstFindVictim(key)
    \/ \E key \in KeysOf(kind) : RaceFindVictim(key)
    \/ InsertEntry
    \/ RaceInsertEntry
    \/ \E p \in Payloads : WritePayload(p)

SpecRace == Init /\ [][NextRace]_vars

---------------------------------------------------------------------------
(* Specification: reservations that are squashed *)

\* the caches of the squash runs: three ways in one set, and two ways in two sets
CancelConfigs ==
    { Request("CacheLibrary", 3, 3, 1, 2, 0, 1),
      Request("CacheLibrary", 4, 2, 1, 2, 0, 1) }

\* the caller that holds a victim is squashed: it drops the entry and never
\* calls insertEntry; the cache is not told
Squash ==
    /\ err = "none" /\ Generic
    /\ pend # NoPend
    /\ pend' = NoPend
    /\ last' = Call("squash", pend.key, pend.id)
    /\ UNCHANGED <<built, ent, curTick, err>>

InitCancel ==
    /\ \E c \in CancelConfigs : Built(c)
    /\ scen = NoScen /\ twin = NoTwin

NextCancel ==
    \/ \E key \in KeysOf(kind) : FindVictim(key)
    \/ InsertEntry
    \/ Squash
    \/ \E key \in KeysOf(kind), u \in BOOLEAN : FindEntry(key, u)

SpecCancel == InitCancel /\ [][NextCancel]_vars

---------------------------------------------------------------------------
(* Specification: two caches of one configuration driven by the same calls *)

\* the replacement policies of the determinism runs: the policy is injected
\* into the cache (replPolicy), and the specification names LRU and random
Policies == {"LRU", "Random"}

\* (mutant) a least-recently-used getVictim that settles a tie between equally
\* old candidates by an arbitrary choice
lruVictims_AnyOldest(E, candidates) ==
    {candidates[i] : i \in
        {k \in DOMAIN candidates :
            \A j \in DOMAIN candidates :
                E[candidates[k]].lastTouchTick <= E[candidates[j]].lastTouchTick}}

\* the entries a least-recently-used replPolicy->getVictim may return: one
lruVictims(E, candidates) == {getVictim(E, candidates)}

\* the entries a random replPolicy->getVictim may return: the first invalid
\* candidate when there is one (it must always be preferred), else any candidate
randomVictims(E, candidates) ==
    LET inv == {i \in DOMAIN candidates : ~E[candidates[i]].valid}
    IN IF inv # {} THEN {candidates[CHOOSE i \in inv : \A j \in inv : i <= j]}
       ELSE {candidates[i] : i \in DOMAIN candidates}

\* replPolicy->getVictim(candidates) under the injected policy
getVictims(policy, E, candidates) ==
    IF policy = "LRU" THEN lruVictims(E, candidates)
    ELSE randomVictims(E, candidates)

\* the first cache as a record; the twin is a record of the same fields
Primary ==
    [policy |-> twin.policy, ent |-> ent, curTick |-> curTick, pend |-> pend,
     err |-> err, ret |-> last.ret]

\* findEntry(addr, updateRepl) on cache C
findEntryOn(C, key, updateRepl) ==
    LET id == findEntryIn(C.ent, key)
        touched == id # NoEntry /\ updateRepl
    IN [C EXCEPT !.ent = IF touched
                         THEN [C.ent EXCEPT ![id] = replTouch(C.ent[id], C.curTick + 1)]
                         ELSE C.ent,
                 !.curTick = IF touched THEN C.curTick + 1 ELSE C.curTick,
                 !.ret = id]

\* findVictim(addr) on cache C: the policy's choice, invalidated and returned
findVictimOn(C, key) ==
    {[C EXCEPT !.ent = invalidate(C.ent, v),
               !.pend = [key |-> key, id |-> v],
               !.ret = v] :
        v \in getVictims(C.policy, C.ent, Candidates(key))}

\* insertEntry(addr, victim) on cache C, for the victim its findVictim returned
insertEntryOn(C) ==
    IF C.ent[C.pend.id].valid
    THEN [C EXCEPT !.err = "assert", !.pend = NoPend, !.ret = C.pend.id]
    ELSE [C EXCEPT !.ent = insertEntry(C.ent, C.pend.key, C.pend.id, C.curTick + 1),
                   !.curTick = C.curTick + 1,
                   !.pend = NoPend, !.ret = C.pend.id]

\* invalidate(entry) on cache C
invalidateOn(C, id) == [C EXCEPT !.ent = invalidate(C.ent, id), !.ret = id]

\* clear() on cache C
clearOn(C) == [C EXCEPT !.ent = clear(C.ent), !.ret = NoEntry]

\* both caches take the step of one call: the first becomes o1, the twin o2
DetStep(c, o1, o2) ==
    /\ ent' = o1.ent /\ curTick' = o1.curTick /\ pend' = o1.pend /\ err' = o1.err
    /\ last' = [c EXCEPT !.ret = o1.ret, !.returned = (o1.err = "none")]
    /\ twin' = o2
    /\ UNCHANGED <<req, kind, cfg, data, scen, pend2>>

DetRunning == err = "none" /\ twin.err = "none" /\ Generic

DetFindEntry(key, updateRepl) ==
    /\ DetRunning
    /\ \A C \in {Primary, twin} :
          (updateRepl /\ findEntryIn(C.ent, key) # NoEntry) => C.curTick < MaxTick
    /\ DetStep([Call("findEntry", key, NoEntry) EXCEPT !.upd = updateRepl],
               findEntryOn(Primary, key, updateRepl),
               findEntryOn(twin, key, updateRepl))

DetFindVictim(key) ==
    /\ DetRunning
    /\ pend = NoPend /\ twin.pend = NoPend
    /\ \E o1 \in findVictimOn(Primary, key), o2 \in findVictimOn(twin, key) :
          DetStep(Saw(Call("findVictim", key, o1.ret), ent, key, o1.ret), o1, o2)

DetInsertEntry ==
    /\ DetRunning
    /\ pend # NoPend /\ twin.pend # NoPend
    /\ curTick < MaxTick /\ twin.curTick < MaxTick
    /\ DetStep(Call("insertEntry", pend.key, pend.id),
               insertEntryOn(Primary), insertEntryOn(twin))

DetInvalidate(id) ==
    /\ DetRunning
    /\ DetStep(Call("invalidate", NoKey, id),
               invalidateOn(Primary, id), invalidateOn(twin, id))

DetClear ==
    /\ DetRunning
    /\ DetStep(Call("clear", NoKey, NoEntry), clearOn(Primary), clearOn(twin))

\* the cache of the determinism runs: two sets of two ways
DetConfigs == { Request("CacheLibrary", 4, 2, 1, 2, 0, 1) }

\* two caches built with the same configuration and the same policy
InitDet ==
    /\ \E c \in DetConfigs : Built(c)
    /\ scen = NoScen
    /\ \E policy \in Policies :
          twin = [policy |-> policy, ent |-> ent, curTick |-> curTick,
                  pend |-> pend, err |-> err, ret |-> last.ret]

NextDet ==
    \/ \E key \in KeysOf(kind), u \in BOOLEAN : DetFindEntry(key, u)
    \/ \E key \in KeysOf(kind) : DetFindVictim(key)
    \/ DetInsertEntry
    \/ \E id \in DOMAIN ent : DetInvalidate(id)
    \/ DetClear

SpecDet == InitDet /\ [][NextDet]_vars

---------------------------------------------------------------------------
(* Specification: the index and tag arithmetic, over configurations and keys *)

\* addresses handed to the indexing functions are 0..MaxIdxAddr
MaxIdxAddr == 31
\* thread ids handed to the BTB policy, below and above the configured number
IdxTids == 0..3
IdxKeys == {Key(a, t) : a \in 0..MaxIdxAddr, t \in IdxTids}
\* thread counts handed to setNumThreads, below and above the number of sets
IdxThreadCounts == {1, 2, 4}

\* the width of int: the literal 1 of (1 << _num_tag_bits) is an int
IntBits == 32
\* INT_MAX, written without leaving the integers of the model checker
IntMax == (2 ^ (IntBits - 2) - 1) * 2 + 1
\* every word has its bits set: (size_t)-1
AllOnes == 0 - 1

\* tagMask = (1 << _num_tag_bits) - 1, computed in int and converted to
\* size_t. Up to IntBits - 2 bits the value is 2^w - 1. With IntBits - 1 bits
\* the subtraction overflows and wraps to INT_MAX. From IntBits bits on the
\* shift is undefined: the shifter of the processor takes the count modulo
\* IntBits, or the shifted-out 1 leaves 0 and the mask has every bit set.
tagMaskOutcomes(w) ==
    IF w < IntBits - 1 THEN {2 ^ w - 1}
    ELSE IF w = IntBits - 1 THEN {IntMax}
    ELSE {IF w % IntBits = IntBits - 1 THEN IntMax ELSE 2 ^ (w % IntBits) - 1,
          AllOnes}

\* the shift count of the thread id in BTBSetAssociative::extractSet
tidShift == cfg.tagShift - cfg.setShift - cfg.log2NumThreads

\* the set index extractSet computes. With more threads than sets the shift
\* count is negative, the shift is undefined, and any bits may reach the mask.
extractSetOutcomes(key) ==
    IF kind = "SSIT" THEN {extractSetSSIT(key)}
    ELSE IF tidShift >= 0 THEN {extractSet(key)}
    ELSE {BitAnd(BitXor(ShiftRight(key.address, cfg.setShift), r), cfg.setMask) :
             r \in 0..cfg.setMask}

\* configurations: 1, 2 or 4 sets and every tag width for CacheLibrary;
\* 1 to 8 sets, set shifts 0 to 2 and 1, 2 or 4 threads for the policies
IdxRequests ==
    {Request("CacheLibrary", n, 1, es, tb, 0, 1) :
        n \in {1, 2, 4}, es \in {1, 2, 4}, tb \in 0..63}
    \cup
    {Request(k, n * a, a, 0, 0, ss, nt) :
        k \in {"SimpleBTB"}, n \in {1, 2, 4, 8}, a \in {1, 2},
        ss \in {0, 1, 2}, nt \in {1, 2, 4}}
    \cup
    {Request("SSIT", n * a, a, 0, 0, ss, 1) :
        n \in {1, 2, 4, 8}, a \in {1, 2}, ss \in {0, 1, 2}}

\* construction, with the tag mask as the int arithmetic of initParams leaves it
ConstructIdx(c, m) ==
    /\ kind = "none" /\ err = "none"
    /\ LET b == Build([c EXCEPT !.tagBits = 0])
       IN /\ req' = c
          /\ kind' = b.kind /\ data' = b.data /\ ent' = b.ent /\ err' = b.err
          /\ cfg' = IF b.err = "none" THEN [b.cfg EXCEPT !.tagMask = m]
                    ELSE NoObject
          /\ last' = [Call("new", NoKey, NoEntry) EXCEPT !.returned = (b.err = "none")]
    /\ UNCHANGED <<curTick, pend, scen, pend2, twin>>

\* CacheLibrary::getIndex / getTag called from outside
GetIndex(addr) ==
    /\ err = "none" /\ kind = "CacheLibrary"
    /\ last' = Call("getIndex", Key(addr, 0), getIndex(addr))
    /\ UNCHANGED <<built, ent, curTick, pend, err>>

GetTag(addr) ==
    /\ err = "none" /\ kind = "CacheLibrary"
    /\ last' = Call("getTag", Key(addr, 0), getTag(addr))
    /\ UNCHANGED <<built, ent, curTick, pend, err>>

\* getPossibleEntries(key): extractSet, assert(set_idx < sets.size()), sets[set_idx]
GetPossibleEntries(key) ==
    /\ err = "none" /\ kind \in {"SimpleBTB", "SSIT"}
    /\ \E set_idx \in extractSetOutcomes(key) :
          IF set_idx < Cardinality(DOMAIN data)
          THEN /\ err' = err
               /\ last' = [Call("getPossibleEntries", key, set_idx)
                              EXCEPT !.payload = data[set_idx]]
          ELSE /\ err' = "assert"
               /\ last' = [Call("getPossibleEntries", key, set_idx)
                              EXCEPT !.returned = FALSE]
    /\ UNCHANGED <<built, ent, curTick, pend>>

NextIdx ==
    \/ \E c \in IdxRequests :
          \E m \in (IF c.kind = "CacheLibrary" THEN tagMaskOutcomes(c.tagBits) ELSE {0}) :
              ConstructIdx(c, m)
    \/ \E a \in 0..MaxIdxAddr : GetIndex(a)
    \/ \E a \in 0..MaxIdxAddr : GetTag(a)
    \/ \E key \in IdxKeys : GetPossibleEntries(key)
    \/ \E n \in IdxThreadCounts : SetNumThreads(n)

InitIdx == Absent /\ scen = NoScen /\ twin = NoTwin

SpecIdx == InitIdx /\ [][NextIdx]_vars

---------------------------------------------------------------------------
(* The BTBEntry of btb_entry.hh: tag {address, tid}, confidence counter *)

\* thread id of the tag an invalid entry carries
NoTid == 0 - 1

\* SatCounter8(bits, initial_val): an initial value above 2^bits - 1 is fatal
SatCounter8Ok(bits, initial_val) == initial_val <= 2 ^ bits - 1
SatCounter8(bits, initial_val) == initial_val
\* SatCounter8::operator++ / operator--: saturating at 2^bits - 1 and at 0
satInc(bits, v) == IF v < 2 ^ bits - 1 THEN v + 1 ELSE v
satDec(v) == IF v > 0 THEN v - 1 ELSE v

\* BTBEntry::BTBEntry(ext, conf_bits, conf_init); ext is the tag extractor of
\* an indexing policy with tag shift tag_shift (genTagExtractor); the branch
\* type is left uninitialised (bt)
btbEntryNew(tag_shift, conf_bits, conf_init, bt) ==
    [valid |-> FALSE, tag |-> Key(MaxAddr, NoTid),
     tagShift |-> tag_shift,
     confBits |-> conf_bits, confInit |-> conf_init,
     confThreshold |-> ShiftLeft(1, conf_bits) - 1,
     confidence |-> SatCounter8(conf_bits, conf_init),
     btype |-> bt,
     payload |-> NoPayload, inst |-> NullInst]

\* the entry's extractTag callback: ip->extractTag(addr)
entryExtractTag(e, addr) == ShiftRight(addr, e.tagShift)

\* BTBEntry::match: isValid() && tag.address == extractTag(key.address)
\* && tag.tid == key.tid
btbEntryMatch(e, key) ==
    (e.valid /\ e.tag.address = entryExtractTag(e, key.address))
        /\ e.tag.tid = key.tid

\* BTBEntry::resetConfidence / setConfidence / incConfidence / decConfidence
resetConfidence(e) ==
    [e EXCEPT !.confidence = SatCounter8(e.confBits, e.confInit)]
setConfidence(e, conf) == [e EXCEPT !.confidence = SatCounter8(e.confBits, conf)]
incConfidence(e) == [e EXCEPT !.confidence = satInc(e.confBits, @)]
decConfidence(e) == [e EXCEPT !.confidence = satDec(@)]

\* BTBEntry::setBranchType
setBranchType(e, type) == [e EXCEPT !.btype = type]

\* (mutant) BTBEntry::insert that leaves the confidence counter as it was
btbEntryInsert_NoReset(e, key) ==
    [e EXCEPT !.valid = TRUE,
              !.tag = Key(entryExtractTag(e, key.address), key.tid)]

\* BTBEntry::insert after the assertion of setValid: setValid, setTag,
\* resetConfidence
btbEntryInsert(e, key) ==
    resetConfidence([e EXCEPT !.valid = TRUE,
                              !.tag = Key(entryExtractTag(e, key.address),
                                          key.tid)])

\* BTBEntry::invalidate: valid = false, setTag({MaxAddr, -1})
btbEntryInvalidate(e) == [e EXCEPT !.valid = FALSE, !.tag = Key(MaxAddr, NoTid)]

\* BTBEntry::update(target, inst)
btbEntryUpdate(e, target, inst) == [e EXCEPT !.payload = target, !.inst = inst]

\* BTBEntry::operator=: valid, tag, inst, extractTag, confidence, confInit,
\* confBits and target are taken from other; confThreshold and btype keep
\* what the entry had
btbEntryAssign(e, other) ==
    [other EXCEPT !.confThreshold = e.confThreshold, !.btype = e.btype]

\* BTBEntry::BTBEntry(const BTBEntry &): the same members are copied;
\* confThreshold and btype of the new entry are left uninitialised (thr, bt)
btbEntryCopy(other, thr, bt) ==
    [other EXCEPT !.confThreshold = thr, !.btype = bt]

\* the one entry of the specification
TheEntry == 1

\* counter widths, tag shifts of the injected extractor, values handed to
\* setConfidence
MaxConfBits == 2
EntryConfigs ==
    {[kind |-> "BTBEntry", confBits |-> b, confInit |-> i, tagShift |-> ts] :
        b \in 1..MaxConfBits, i \in 0..(2 ^ MaxConfBits - 1), ts \in {0, 1}}
ConfValues == 0..(2 ^ MaxConfBits)
\* branch types handed to setBranchType
BranchTypes == {0, 1}
\* keys: two addresses and two thread ids, and the tag of an invalid entry (the
\* address MaxAddr only under tag shift 0, where it is its own tag)
EntryKeys ==
    {Key(a, t) : a \in {0, 2}, t \in {0, NoTid}}
    \cup (IF ent[TheEntry].tagShift = 0
          THEN {Key(MaxAddr, t) : t \in {0, NoTid}} ELSE {})

\* the entries handed to operator= and to the copy constructor: constructed,
\* and constructed, filled and given a target, with the counter moved off
\* its initial value
OtherEntries ==
    LET fresh == {btbEntryNew(c.tagShift, c.confBits, c.confInit, 0) :
                     c \in {x \in EntryConfigs :
                               SatCounter8Ok(x.confBits, x.confInit)}}
    IN fresh \cup {incConfidence(btbEntryUpdate(btbEntryInsert(e, Key(2, 0)), 1, 2)) :
                      e \in fresh}

\* the entry as its constructor leaves it
EntryBuilt(c) ==
    /\ req = NoReq /\ kind = "BTBEntry"
    /\ cfg = NoObject
    /\ data = NewData(0, 0)
    /\ \E bt \in UninitValues :
          ent = [id \in {TheEntry} |->
                    btbEntryNew(c.tagShift, c.confBits, c.confInit, bt)]
    /\ err = "none"
    /\ curTick = 0 /\ pend = NoPend /\ pend2 = NoPend
    /\ last = Call("new", NoKey, TheEntry)

\* insert(key); the confidence the entry carried into the call is recorded
EntryInsert(key) ==
    /\ err = "none" /\ kind = "BTBEntry"
    /\ IF ~setValidOk(ent[TheEntry])
       THEN /\ err' = "assert" /\ ent' = ent
       ELSE /\ err' = err
            /\ ent' = [ent EXCEPT ![TheEntry] = btbEntryInsert(@, key)]
    /\ last' = [Call("insert", key, TheEntry)
                   EXCEPT !.returned = setValidOk(ent[TheEntry]),
                          !.payload = ent[TheEntry].confidence]
    /\ UNCHANGED <<built, curTick, pend>>

EntryInvalidate ==
    /\ err = "none" /\ kind = "BTBEntry"
    /\ ent' = [ent EXCEPT ![TheEntry] = btbEntryInvalidate(@)]
    /\ last' = Call("invalidate", NoKey, TheEntry)
    /\ UNCHANGED <<built, curTick, pend, err>>

EntryMatch(key) ==
    /\ err = "none" /\ kind = "BTBEntry"
    /\ last' = [Call("match", key, TheEntry)
                   EXCEPT !.hit = btbEntryMatch(ent[TheEntry], key)]
    /\ UNCHANGED <<built, ent, curTick, pend, err>>

EntryUpdate(target, inst) ==
    /\ err = "none" /\ kind = "BTBEntry"
    /\ ent' = [ent EXCEPT ![TheEntry] = btbEntryUpdate(@, target, inst)]
    /\ last' = [Call("entryUpdate", NoKey, TheEntry)
                   EXCEPT !.payload = target, !.inst = inst]
    /\ UNCHANGED <<built, curTick, pend, err>>

SetConfidence(conf) ==
    /\ err = "none" /\ kind = "BTBEntry"
    /\ IF SatCounter8Ok(ent[TheEntry].confBits, conf)
       THEN /\ ent' = [ent EXCEPT ![TheEntry] = setConfidence(@, conf)]
            /\ err' = err
       ELSE /\ ent' = ent
            /\ err' = "fatal"
    /\ last' = [Call("setConfidence", NoKey, TheEntry)
                   EXCEPT !.payload = conf,
                          !.returned = SatCounter8Ok(ent[TheEntry].confBits, conf)]
    /\ UNCHANGED <<built, curTick, pend>>

\* BTBEntry::resetConfidence(): confidence = SatCounter8(confBits, confInit)
ResetConfidence ==
    /\ err = "none" /\ kind = "BTBEntry"
    /\ IF SatCounter8Ok(ent[TheEntry].confBits, ent[TheEntry].confInit)
       THEN /\ ent' = [ent EXCEPT ![TheEntry] = resetConfidence(@)]
            /\ err' = err
       ELSE /\ ent' = ent
            /\ err' = "fatal"
    /\ last' = [Call("resetConfidence", NoKey, TheEntry)
                   EXCEPT !.payload = ent[TheEntry].confidence,
                          !.returned = SatCounter8Ok(ent[TheEntry].confBits,
                                                     ent[TheEntry].confInit)]
    /\ UNCHANGED <<built, curTick, pend>>

IncConfidence ==
    /\ err = "none" /\ kind = "BTBEntry"
    /\ ent' = [ent EXCEPT ![TheEntry] = incConfidence(@)]
    /\ last' = Call("incConfidence", NoKey, TheEntry)
    /\ UNCHANGED <<built, curTick, pend, err>>

DecConfidence ==
    /\ err = "none" /\ kind = "BTBEntry"
    /\ ent' = [ent EXCEPT ![TheEntry] = decConfidence(@)]
    /\ last' = Call("decConfidence", NoKey, TheEntry)
    /\ UNCHANGED <<built, curTick, pend, err>>

SetBranchType(type) ==
    /\ err = "none" /\ kind = "BTBEntry"
    /\ ent' = [ent EXCEPT ![TheEntry] = setBranchType(@, type)]
    /\ last' = Call("setBranchType", NoKey, TheEntry)
    /\ UNCHANGED <<built, curTick, pend, err>>

\* e = other
EntryAssign(other) ==
    /\ err = "none" /\ kind = "BTBEntry"
    /\ ent' = [ent EXCEPT ![TheEntry] = btbEntryAssign(@, other)]
    /\ last' = Call("assign", NoKey, TheEntry)
    /\ UNCHANGED <<built, curTick, pend, err>>

\* BTBEntry e(other): the entry of the specification becomes the copy
EntryCopy(other) ==
    /\ err = "none" /\ kind = "BTBEntry"
    /\ \E thr \in UninitValues, bt \in UninitValues :
          ent' = [ent EXCEPT ![TheEntry] = btbEntryCopy(other, thr, bt)]
    /\ last' = Call("copy", NoKey, TheEntry)
    /\ UNCHANGED <<built, curTick, pend, err>>

InitEntry ==
    /\ \E c \in {x \in EntryConfigs : SatCounter8Ok(x.confBits, x.confInit)} :
          EntryBuilt(c)
    /\ scen = NoScen /\ twin = NoTwin

NextEntry ==
    \/ \E key \in EntryKeys : EntryInsert(key)
    \/ EntryInvalidate
    \/ \E key \in EntryKeys : EntryMatch(key)
    \/ EntryUpdate(1, 2)
    \/ \E conf \in ConfValues : SetConfidence(conf)
    \/ ResetConfidence
    \/ IncConfidence
    \/ DecConfidence
    \/ \E type \in BranchTypes : SetBranchType(type)
    \/ \E other \in OtherEntries : EntryAssign(other)
    \/ \E other \in OtherEntries : EntryCopy(other)

SpecEntry == InitEntry /\ [][NextEntry]_vars

---------------------------------------------------------------------------
(* Specification: keys that carry the tag of an invalid entry *)

\* one-set caches (tag shift 0, so the address MaxAddr is its own tag)
SentinelConfigs ==
    { Request("CacheLibrary", 2, 2, 1, 2, 0, 1),
      Request("SimpleBTB", 2, 2, 0, 0, 0, 1),
      Request("SSIT", 2, 2, 0, 0, 0, 1) }
SentinelKeys == {Key(MaxAddr, InitTid), Key(0, 0), Key(1, 0)}

InitSentinel ==
    /\ \/ \E c \in SentinelConfigs : Built(c)
       \/ \E c \in {x \in EntryConfigs : SatCounter8Ok(x.confBits, x.confInit)} :
             EntryBuilt(c)
    /\ scen = NoScen /\ twin = NoTwin

NextSentinel ==
    \/ \E key \in SentinelKeys, u \in BOOLEAN : FindEntry(key, u)
    \/ \E key \in SentinelKeys : IsEntryValid(key)
    \/ \E key \in SentinelKeys : FindVictim(key)
    \/ InsertEntry
    \/ \E p \in Payloads : WritePayload(p)
    \/ \E id \in DOMAIN ent : Invalidate(id)
    \/ Clear
    \/ \E key \in SentinelKeys, b \in Branches : Update(key, b[1], b[2])
    \/ \E key \in SentinelKeys : Lookup(key)
    \/ \E key \in SentinelKeys : Valid(key)
    \/ \E key \in SentinelKeys : GetInst(key)
    \/ MemInvalidate
    \/ kind = "BTBEntry" /\ \E key \in EntryKeys : EntryInsert(key)
    \/ EntryInvalidate
    \/ kind = "BTBEntry" /\ \E key \in EntryKeys : EntryMatch(key)

SpecSentinel == InitSentinel /\ [][NextSentinel]_vars

---------------------------------------------------------------------------
(* Properties *)

EntriesOfSet(s) == {data[s][w] : w \in DOMAIN data[s]}
ConstructedNow == last.op \in {"new", "init"}

\* C1: no set ever holds two valid entries whose stored tags (in the BTB: tag
\* and thread id) are equal.
C1_NoDuplicateTags ==
    \A s \in DOMAIN data : \A w1, w2 \in DOMAIN data[s] :
        (w1 # w2 /\ ent[data[s][w1]].valid /\ ent[data[s][w2]].valid)
            => ~(/\ ent[data[s][w1]].tag = ent[data[s][w2]].tag
                 /\ ent[data[s][w1]].tid = ent[data[s][w2]].tid)

\* C2: round trip. Right after findVictim(K), insertEntry(K, victim) and the
\* write of payload P (SimpleBTB: after update(K, target, inst)), lookup(K)
\* returns an entry whose tag is tag_of(K) and whose payload is P (SimpleBTB:
\* the target, and getInst(K) gives inst).
C2_RoundTrip ==
    (last.op \in {"write", "update"} /\ last.returned) =>
        LET e == findEntry(last.key) IN
        /\ e # NoEntry
        /\ ent[e].tag = TagOf(last.key)
        /\ ent[e].payload = last.payload
        /\ kind = "SimpleBTB" => ent[e].inst = last.inst

\* C3: the entry findVictim(K) returns (SimpleBTB::update: the entry it fills)
\* is one of the entries of the set K maps to, and of no other set.
C3_VictimInSet ==
    last.op \in {"findVictim", "update"} =>
        /\ last.ret \in EntriesOfSet(SetOf(last.key))
        /\ \A s \in DOMAIN data :
               s # SetOf(last.key) => last.ret \notin EntriesOfSet(s)

\* a victim was taken from a set of a several-set structure whose ways were
\* all valid
C3_Witness ==
    /\ last.op = "findVictim" /\ cfg.numSets > 1
    /\ last.vValid /\ ~last.hadInvalid

\* C4: when the set of K has an invalid way, findVictim(K) returns an entry
\* that was invalid before the call.
C4_InvalidPreferred ==
    (last.op \in {"findVictim", "update"} /\ last.hadInvalid) => ~last.vValid

\* an invalid way was chosen although an earlier way of the set holds valid,
\* recently used data
C4_Witness ==
    /\ last.op = "findVictim" /\ last.hadInvalid /\ ~last.vValid
    /\ \E w1, w2 \in DOMAIN data[SetOf(last.key)] :
           /\ w1 < w2
           /\ data[SetOf(last.key)][w2] = last.ret
           /\ ent[data[SetOf(last.key)][w1]].valid
           /\ ent[data[SetOf(last.key)][w1]].lastTouchTick > 1

\* C5: after clear() (SimpleBTB::memInvalidate) every entry is invalid, every
\* lookup misses, and a second clear() leaves the entries exactly as they are.
C5_ClearIdempotent ==
    last.op \in {"clear", "memInvalidate"} =>
        /\ \A id \in DOMAIN ent : ~ent[id].valid
        /\ \A key \in KeysOf(kind) : findEntry(key) = NoEntry
        /\ clear(ent) = ent

\* clear() ran on a structure that held valid entries
C5_Witness == last.op \in {"clear", "memInvalidate"} /\ last.vValid

ScenDone == scen # NoScen /\ pend = NoPend /\ curTick = Len(scen)

\* C6: after assoc + 1 keys of one set with pairwise distinct tags were
\* inserted into the empty cache, exactly one of the first assoc keys misses,
\* the others hit, and the last key hits.
C6_OverflowEvictsOne ==
    ScenDone =>
        /\ Cardinality({i \in 1..cfg.assoc : findEntry(Key(scen[i], 0)) = NoEntry}) = 1
        /\ findEntry(Key(scen[cfg.assoc + 1], 0)) # NoEntry
        /\ \A i \in DOMAIN scen :
               findEntry(Key(scen[i], 0)) # NoEntry =>
                   ent[findEntry(Key(scen[i], 0))].tag = getTag(scen[i])

\* the scenario of the specification ran to its end: associativity 2, 4 sets
C6_Witness == ScenDone /\ cfg.assoc = 2 /\ cfg.numSets = 4 /\ cfg.numEntries = 8

\* C7: construction with a capacity that is not a multiple of the
\* associativity ends in an error and produces no cache.
C7_NonMultipleRejected ==
    (ConstructedNow /\ req.numEntries % req.assoc # 0) =>
        /\ err # "none"
        /\ kind = "none"
        /\ DOMAIN ent = {}

\* C8: CacheLibrary construction fails when the set count numEntries /
\* associativity (the integer quotient the constructor computes) is no power
\* of two, and succeeds, with that many sets, when the capacity is a multiple
\* of the associativity and the set count is a power of two; SimpleBTB
\* construction fails when numEntries is no power of two.
C8_PowerOfTwoSets ==
    ConstructedNow =>
        /\ (req.kind = "CacheLibrary" /\ ~isPowerOf2(req.numEntries \div req.assoc))
               => (err # "none" /\ kind = "none" /\ DOMAIN ent = {})
        /\ (/\ req.kind = "CacheLibrary"
            /\ req.numEntries % req.assoc = 0
            /\ isPowerOf2(req.numEntries \div req.assoc))
               => /\ err = "none" /\ kind = "CacheLibrary"
                  /\ cfg.numSets = req.numEntries \div req.assoc
                  /\ Cardinality(DOMAIN ent) = req.numEntries
        /\ (req.kind = "SimpleBTB" /\ ~isPowerOf2(req.numEntries))
               => (err # "none" /\ kind = "none")

\* a request with 3 sets was refused
C8_Witness ==
    /\ ConstructedNow /\ req.kind = "CacheLibrary"
    /\ req.numEntries = 6 /\ req.assoc = 2
    /\ err = "assert"

\* C9: regenerateAddr of the BTB and SSIT indexing policies never returns to
\* its caller: it ends in a panic, hands out no address and changes nothing
\* of the cache.
C9_RegenerateAddrUnsupported ==
    [][last'.op = "regenerateAddr" =>
          /\ ~last'.returned /\ err' = "panic" /\ last'.ret = MaxAddr
          /\ ent' = ent /\ data' = data /\ cfg' = cfg /\ kind' = kind
          /\ pend' = pend /\ curTick' = curTick]_vars

\* regenerateAddr was called on a structure that holds valid entries
C9_Witness ==
    /\ last.op = "regenerateAddr" /\ err = "panic"
    /\ \E id \in DOMAIN ent : ent[id].valid

\* C10: right after findVictim(K) returned v, v is invalid, its tag is
\* MaxAddr, and a lookup for the key v held before the call misses.
C10_VictimInert ==
    last.op = "findVictim" =>
        /\ ~ent[last.ret].valid
        /\ ent[last.ret].tag = MaxAddr
        /\ last.vValid =>
               \A id \in EntriesOfSet(SetOf(last.key)) :
                   ~matchTag(ent[id], last.vTag)

\* the ways of the set of key whose entry answers to key
MatchingWays(key) ==
    {w \in DOMAIN data[SetOf(key)] : Matches(ent[data[SetOf(key)][w]], key)}

\* C11: a lookup (findEntry, touching or not, isEntryValid, SimpleBTB's lookup,
\* valid and getInst) always returns; it returns the first entry, in way
\* order, of the key's set that is valid and carries the key's tag (in the BTB:
\* tag and thread id), and nullptr exactly when the set has no such entry; the
\* existence checks answer true exactly when there is such an entry.
C11_LookupFirstMatch ==
    last.op \in {"findEntry", "isEntryValid", "lookup", "valid", "getInst"} =>
        /\ last.returned /\ err = "none"
        /\ (last.ret = NoEntry) <=> (MatchingWays(last.key) = {})
        /\ MatchingWays(last.key) # {} =>
               \E w \in MatchingWays(last.key) :
                   /\ data[SetOf(last.key)][w] = last.ret
                   /\ \A j \in MatchingWays(last.key) : w <= j
        /\ last.op \in {"isEntryValid", "valid"} =>
               (last.hit <=> MatchingWays(last.key) # {})

\* a lookup in a set where two ways answer to the key returned the first
C11_Witness ==
    /\ last.op \in {"findEntry", "lookup"}
    /\ Cardinality(MatchingWays(last.key)) > 1
    /\ last.ret # NoEntry

\* the last call was an existence check / a touching lookup
IsCheck(c) ==
    \/ c.op \in {"isEntryValid", "valid", "getInst"}
    \/ c.op = "findEntry" /\ ~c.upd
IsTouchingLookup(c) ==
    \/ c.op = "lookup"
    \/ c.op = "findEntry" /\ c.upd

\* C12: findEntry without updateRepl, isEntryValid, SimpleBTB::valid and
\* SimpleBTB::getInst change no field of any entry and do not advance the
\* replacement state, on a hit and on a miss; a touching lookup (findEntry
\* with updateRepl, SimpleBTB::lookup) changes nothing on a miss, and on a hit
\* only the replacement stamp of the entry it returns.
C12_ChecksDoNotPerturb ==
    [][/\ IsCheck(last') => (ent' = ent /\ curTick' = curTick /\ pend' = pend)
       /\ IsTouchingLookup(last') =>
              /\ \A id \in DOMAIN ent : id # last'.ret => ent'[id] = ent[id]
              /\ last'.ret = NoEntry => (ent' = ent /\ curTick' = curTick)
              /\ last'.ret # NoEntry =>
                     /\ ent'[last'.ret] =
                            [ent[last'.ret] EXCEPT !.lastTouchTick = curTick']
                     /\ curTick' > curTick
                     /\ \A id \in DOMAIN ent :
                            ent[id].lastTouchTick < curTick'
      ]_vars

\* an existence check hit an entry that is not the most recently used one of
\* its set
C12_Witness ==
    /\ IsCheck(last) /\ last.ret # NoEntry
    /\ \E id \in EntriesOfSet(SetOf(last.key)) :
           ent[id].valid /\ ent[id].lastTouchTick > ent[last.ret].lastTouchTick

\* C13: findVictim always returns an entry of the cache, and the insertEntry
\* that follows it (in SimpleBTB::update: the insertEntry of the same call)
\* completes: the assertion !isValid() of setValid never fails, and no
\* operation stops the program.
C13_VictimAndInsertSucceed ==
    /\ err = "none"
    /\ last.op \in {"findVictim", "update"} =>
           (last.ret # NoEntry /\ last.ret \in DOMAIN ent)
    /\ last.op = "findVictim" => (pend.id = last.ret /\ ~ent[pend.id].valid)
    /\ last.op \in {"insertEntry", "update"} =>
           (last.returned /\ ent[last.ret].valid)

\* an insert completed on a victim that held valid data when it was chosen
\* from a set without an invalid way
C13_Witness ==
    /\ last.op = "update" /\ last.returned
    /\ last.vValid /\ ~last.hadInvalid

\* C14: a constructed cache owns exactly capacity entries, in capacity /
\* associativity sets of associativity ways each, every slot holds an entry of
\* its own, and the candidates of every key are the associativity entries of
\* one set.
C14_FixedGeometry ==
    (kind \in {"CacheLibrary", "SimpleBTB", "SSIT"} /\ err = "none") =>
        /\ Cardinality(DOMAIN ent) = req.numEntries
        /\ cfg.numSets * req.assoc = req.numEntries
        /\ DOMAIN data = 0..(cfg.numSets - 1)
        /\ \A s \in DOMAIN data :
               /\ DOMAIN data[s] = 1..req.assoc
               /\ Cardinality(EntriesOfSet(s)) = req.assoc
               /\ EntriesOfSet(s) \subseteq DOMAIN ent
        /\ \A s1, s2 \in DOMAIN data :
               s1 # s2 => EntriesOfSet(s1) \cap EntriesOfSet(s2) = {}
        /\ \A key \in KeysOf(kind) : Len(Candidates(key)) = req.assoc

\* the set an entry is stored in
SetOfEntry(id) == CHOOSE s \in DOMAIN data : id \in EntriesOfSet(s)

\* a lookup for the key that entry e holds, in set s of entry store E, hits
HitsFor(E, s, e) ==
    \E o \in EntriesOfSet(s) :
        E[o].valid /\ E[o].tag = e.tag /\ (kind = "SimpleBTB" => E[o].tid = e.tid)

\* C15: invalidate(entry) leaves that entry invalid, with tag MaxAddr and
\* replacement metadata of the lowest priority, and every other entry as it
\* was; a lookup for the key the entry held then misses; on an entry that is
\* already invalid it changes nothing.
C15_InvalidateFrame ==
    [][last'.op = "invalidate" =>
          /\ ~ent'[last'.ret].valid
          /\ ent'[last'.ret].tag = MaxAddr
          /\ ent'[last'.ret].lastTouchTick = 0
          /\ \A o \in DOMAIN ent : o # last'.ret => ent'[o] = ent[o]
          /\ ent[last'.ret].valid =>
                 ~HitsFor(ent', SetOfEntry(last'.ret), ent[last'.ret])
          /\ ~ent[last'.ret].valid => ent' = ent
      ]_vars

\* C16: insertEntry(K, victim) (alone, or inside SimpleBTB::update) leaves the
\* victim valid, with tag tag_of(K) and freshly reset replacement metadata
\* (the newest stamp of the cache); every other entry, of the same set and of
\* the other sets, keeps all its fields.
C16_InsertFrame ==
    [][(last'.op \in {"insertEntry", "update"} /\ last'.returned) =>
          /\ ent'[last'.ret].valid
          /\ ent'[last'.ret].tag = TagOf(last'.key)
          /\ ent'[last'.ret].lastTouchTick = curTick'
          /\ \A o \in DOMAIN ent : ent[o].lastTouchTick < curTick'
          /\ \A o \in DOMAIN ent : o # last'.ret => ent'[o] = ent[o]
      ]_vars

\* an insert into a set whose other way holds valid data, while another set
\* holds valid data too
C16_Witness ==
    /\ last.op = "insertEntry" /\ last.returned
    /\ \E o \in EntriesOfSet(SetOf(last.key)) : o # last.ret /\ ent[o].valid
    /\ \E o \in DOMAIN ent : ent[o].valid /\ SetOfEntry(o) # SetOf(last.key)

\* C17: every invalid entry carries the replacement metadata the policy's
\* invalidate produces (the lowest priority), so no invalid entry ranks above
\* a valid entry of its set.
C17_InvalidIsMinPriority ==
    /\ \A id \in DOMAIN ent :
           ~ent[id].valid => ent[id] = replInvalidate(ent[id])
    /\ \A s \in DOMAIN data : \A i, j \in EntriesOfSet(s) :
           (~ent[i].valid /\ ent[j].valid) =>
               ent[i].lastTouchTick < ent[j].lastTouchTick

\* a valid entry was evicted while another way of its set stays valid
C17_Witness ==
    /\ last.op = "findVictim" /\ last.vValid
    /\ ~ent[last.ret].valid
    /\ \E o \in EntriesOfSet(SetOf(last.key)) : ent[o].valid

\* the call filled or touched the entry it returned
IsUse(c) ==
    /\ c.returned /\ c.ret # NoEntry
    /\ \/ c.op \in {"insertEntry", "update", "lookup"}
       \/ c.op = "findEntry" /\ c.upd

\* C18: when every way of the key's set is valid, findVictim (alone or inside
\* SimpleBTB::update) takes the entry whose last fill or touch is the oldest
\* of the set, and with two or more ways it never takes the entry that the
\* call just before filled or touched.
C18_LeastRecentlyUsed ==
    [][(last'.op \in {"findVictim", "update"} /\ ~last'.hadInvalid) =>
          /\ \A o \in EntriesOfSet(SetOf(last'.key)) :
                 ent[last'.ret].lastTouchTick <= ent[o].lastTouchTick
          /\ (cfg.assoc >= 2 /\ IsUse(last)) => last'.ret # last.ret
      ]_vars

\* the second way was evicted from a full set right after the first way was
\* touched
C18_Witness ==
    /\ last.op = "findVictim" /\ ~last.hadInvalid
    /\ data[SetOf(last.key)][2] = last.ret
    /\ ent[data[SetOf(last.key)][1]].lastTouchTick = curTick

\* C19: a second findVictim for a key of the same set, issued between a
\* findVictim and its insertEntry, returns the same, still invalid entry; once
\* the first caller has filled it, the second caller's insertEntry meets an
\* entry that is already valid and holds the first caller's tag, and stops at
\* the assertion of setValid.
C19_InterleavingHazard ==
    /\ (pend # NoPend /\ pend2 # NoPend) =>
           (pend2.id = pend.id /\ ~ent[pend.id].valid)
    /\ (pend = NoPend /\ pend2 # NoPend) => ent[pend2.id].valid
    /\ (last.op = "insertEntry" /\ last.second) =>
           /\ ~last.returned /\ err = "assert"
           /\ ent[last.ret].valid

\* the second caller's insertEntry for another key was applied to the entry
\* the first caller had filled
C19_Witness ==
    /\ last.op = "insertEntry" /\ last.second /\ err = "assert"
    /\ ent[last.ret].valid /\ ent[last.ret].tag # TagOf(last.key)

\* a lookup for the key that entry o holds, in entry store E, returns o: o is
\* the first way of its set that is valid with o's tag
ReturnedForItsKey(E, o) ==
    LET s == SetOfEntry(o)
        ws == {w \in DOMAIN data[s] :
                  /\ E[data[s][w]].valid /\ E[data[s][w]].tag = E[o].tag
                  /\ kind = "SimpleBTB" => E[data[s][w]].tid = E[o].tid}
    IN E[o].valid /\ \E w \in ws : data[s][w] = o /\ \A j \in ws : w <= j

\* C20: findVictim changes no entry but the victim; every other entry that
\* was valid is afterwards the entry a lookup of its key returns; and neither
\* a lookup nor the squash of the caller makes an invalid entry valid, so a
\* victim that is never filled stays invalid until an insertEntry on it.
C20_CancellationNeedsNoRollback ==
    [][/\ last'.op = "findVictim" =>
              /\ ~ent'[last'.ret].valid
              /\ \A o \in DOMAIN ent : o # last'.ret =>
                     /\ ent'[o] = ent[o]
                     /\ ent[o].valid => ReturnedForItsKey(ent', o)
       /\ last'.op \in {"findEntry", "squash"} =>
              \A o \in DOMAIN ent : ~ent[o].valid => ~ent'[o].valid
      ]_vars

\* C21: in the BTB, lookup, valid and getInst with key (address, tid) return
\* an entry only if it is valid, its tag is the tag extracted from address and
\* its thread id is tid; an entry filled for one thread is never returned to
\* another thread.
C21_ThreadDiscrimination ==
    (kind = "SimpleBTB" /\ last.op \in {"lookup", "valid", "getInst"}
        /\ last.ret # NoEntry) =>
        /\ ent[last.ret].valid
        /\ ent[last.ret].tag = extractTag(last.key.address)
        /\ ent[last.ret].tid = last.key.tid

\* a lookup missed although a valid entry of the key's set carries the key's
\* tag: it belongs to the other thread
C21_Witness ==
    /\ kind = "SimpleBTB" /\ last.op = "lookup" /\ last.ret = NoEntry
    /\ \E o \in EntriesOfSet(SetOf(last.key)) :
           /\ ent[o].valid /\ ent[o].tag = extractTag(last.key.address)
           /\ ent[o].tid # last.key.tid

\* the number of threads the BTB policy was last told (by its constructor or
\* by a later setNumThreads)
numThreads == 2 ^ cfg.log2NumThreads

\* getPossibleEntries of the BTB policy returned, in a configuration with no
\* more threads than sets
BTBIndexed ==
    /\ kind = "SimpleBTB" /\ last.op = "getPossibleEntries" /\ last.returned
    /\ numThreads <= cfg.numSets

\* the set field of an address: (address >> setShift) mod set_count
SetField(a) == (a \div (2 ^ cfg.setShift)) % cfg.numSets

\* C22 (as the code has it): for key (address, tid) the set index is the set
\* field of the address XORed with the thread id shifted left by
\* log2(set_count) - log2(threads), masked with the set mask; the tag comes
\* from the address alone, equal for every thread id.
C22_KeyedIndexing ==
    BTBIndexed =>
        /\ last.ret = BitXor(SetField(last.key.address),
                             (last.key.tid * (cfg.numSets \div numThreads))
                                 % cfg.numSets)
        /\ \A t \in IdxTids :
               TagOf(Key(last.key.address, t)) = TagOf(last.key)
        /\ TagOf(last.key) = last.key.address \div (2 ^ cfg.tagShift)

\* C22 (as stated): the thread id is shifted left by log2(threads).
C22_ShiftByLog2Threads ==
    BTBIndexed =>
        last.ret = BitXor(SetField(last.key.address),
                          (last.key.tid * numThreads) % cfg.numSets)

\* thread 1 of two threads, in 8 sets: the index differs from the set field
\* of the address
C22_Witness ==
    /\ BTBIndexed /\ numThreads = 2 /\ cfg.numSets = 8
    /\ last.key.tid = 1
    /\ last.ret # SetField(last.key.address)

\* x mod 2^w for the addresses of the model, all below 2^(IntBits - 1)
ModPow2(x, w) == IF w >= IntBits - 1 THEN x ELSE x % (2 ^ w)

\* C23: shift/mask indexing. For every address, power-of-two entry size and
\* set count and every tag width w in 0..63, getIndex(addr) =
\* (addr >> log2(entry_size)) mod set_count, inside [0, set_count); getTag(addr)
\* = (addr >> (log2(entry_size) + log2(set_count))) mod 2^w; index bits and tag
\* bits do not overlap (the shifted address is index + set_count * high bits).
\* The SSIT policy indexes the same way with its set shift.
C23_ShiftMaskNumerics ==
    /\ (kind = "CacheLibrary" /\ last.op = "getIndex") =>
          /\ last.ret = (last.key.address \div req.entrySize) % cfg.numSets
          /\ last.ret \in 0..(cfg.numSets - 1)
          /\ last.key.address \div req.entrySize =
                last.ret
                + cfg.numSets
                  * (last.key.address \div (req.entrySize * cfg.numSets))
    /\ (kind = "CacheLibrary" /\ last.op = "getTag") =>
          last.ret = ModPow2(last.key.address \div (req.entrySize * cfg.numSets),
                             req.tagBits)
    /\ (kind = "SSIT" /\ last.op = "getPossibleEntries") =>
          /\ last.returned
          /\ last.ret = (last.key.address \div (2 ^ req.setShift)) % cfg.numSets

\* C27: per-thread partitioning of BTB sets. With threads and sets powers of
\* two and threads <= sets, two keys of one address and different thread ids,
\* both below the number of threads, map to different sets.
C27_ThreadsPartitionSets ==
    (BTBIndexed /\ last.key.tid < numThreads) =>
        \A t \in IdxTids :
            (t < numThreads /\ t # last.key.tid) =>
                extractSet(Key(last.key.address, t)) # last.ret

\* four threads in four sets: thread 3 is indexed, three other threads exist
C27_Witness ==
    /\ BTBIndexed /\ numThreads = 4 /\ cfg.numSets = 4
    /\ last.key.tid = 3

\* C28: the assertion set_idx < sets.size() of getPossibleEntries holds for
\* every key, thread ids at or above the number of threads included: the index
\* of BTBSetAssociative::extractSet and of SSITSetAssociative::extractSet is
\* below the number of sets and the list returned is that set's entries.
C28_SetIndexInRange ==
    (last.op = "getPossibleEntries") =>
        /\ last.returned /\ err = "none"
        /\ last.ret \in 0..(cfg.numSets - 1)
        /\ last.ret \in DOMAIN data
        /\ last.payload = data[last.ret]
        /\ {last.payload[w] : w \in DOMAIN last.payload} = EntriesOfSet(last.ret)
        /\ Cardinality(EntriesOfSet(last.ret)) = cfg.assoc

\* a BTB key whose thread id is not below the number of threads, with the
\* thread bits reaching the index
C28_Witness ==
    /\ kind = "SimpleBTB" /\ last.op = "getPossibleEntries" /\ last.returned
    /\ numThreads = 2 /\ cfg.numSets = 4 /\ last.key.tid = 3
    /\ last.ret # SetField(last.key.address)

\* the twin cache is in the state of the first and returned what it returned
TwinAgrees == twin = Primary

C25_BTBSingleMatch ==
    kind = "SimpleBTB" =>
        /\ \A key \in BTBKeys : Cardinality(MatchingWays(key)) <= 1
        /\ (last.op = "update" /\ last.returned) =>
               Cardinality(MatchingWays(last.key)) = 1

\* entry id holds a live insertion for key: valid, in key's set, under key's tag
\* (in the BTB: and thread id)
LiveFor(E, id, key) ==
    /\ E[id].valid
    /\ id \in EntriesIn(SetOf(key))
    /\ E[id].tag = TagOf(key)
    /\ kind = "SimpleBTB" => E[id].tid = key.tid

\* C26: no hit without a live insertion. If a lookup of K returns entry e, an
\* earlier insert_entry(K', e) with the set and tag of K was performed and no
\* invalidate(e), no find_victim that selected e and no clear came after it;
\* the set and the tag of a key are the ones its call computed.
\* By induction over the steps: the cache starts with no valid entry; an entry
\* becomes valid, or changes the key it answers to, only in insertEntry (or
\* update) on that entry, and then holds the inserted key; invalidate,
\* find_victim and clear leave their entries invalid; a lookup returns only an
\* entry that is valid under the key's set and tag. No entry leaves its set,
\* and the one call that changes the indexing (setNumThreads of the BTB
\* policy) changes no entry and no tag.
C26_NoHitWithoutLiveInsert ==
    /\ \A id \in DOMAIN ent : ~ent[id].valid
    /\ [][/\ data' = data
          /\ cfg' # cfg =>
                /\ last'.op = "setNumThreads" /\ ent' = ent
                /\ cfg' = [cfg EXCEPT !.log2NumThreads = cfg'.log2NumThreads]
          /\ \A id \in DOMAIN ent :
                (/\ ent'[id].valid
                 /\ \/ ~ent[id].valid
                    \/ ent'[id].tag # ent[id].tag
                    \/ ent'[id].tid # ent[id].tid)
                => /\ last'.op \in {"insertEntry", "update"}
                   /\ last'.ret = id
                   /\ LiveFor(ent', id, last'.key)
          /\ last'.op \in {"invalidate", "findVictim"} => ~ent'[last'.ret].valid
          /\ last'.op \in {"clear", "memInvalidate"} =>
                \A id \in DOMAIN ent : ~ent'[id].valid
          /\ (/\ last'.op \in {"findEntry", "isEntryValid", "lookup", "valid",
                                "getInst"}
              /\ last'.ret # NoEntry)
                => /\ LiveFor(ent, last'.ret, last'.key)
                   /\ ent'[last'.ret].valid
         ]_vars

\* a lookup that hits after the clock has seen two insertions
C26_Witness ==
    /\ last.op \in {"findEntry", "lookup"} /\ last.ret # NoEntry
    /\ curTick >= 3

\* no entry of the cache is valid
AllInvalid == \A id \in DOMAIN ent : ~ent[id].valid

\* C29: an invalid entry matches no key, the key whose tag is MaxAddr (and, for
\* the BTB entry, whose thread id is the -1 that invalidate stores) included:
\* match / matchTag answer false on it, and a freshly constructed or cleared
\* cache misses on every lookup.
C29_InvalidMatchesNothing ==
    /\ kind \in {"CacheLibrary", "SSIT", "SimpleBTB"} =>
          /\ \A id \in DOMAIN ent : \A key \in SentinelKeys :
                 ~ent[id].valid => ~Matches(ent[id], key)
          /\ (/\ last.op \in {"findEntry", "isEntryValid", "lookup", "valid",
                                "getInst"}
              /\ AllInvalid)
                => (last.ret = NoEntry /\ ~last.hit)
    /\ kind = "BTBEntry" =>
          /\ \A key \in EntryKeys :
                 ~ent[TheEntry].valid => ~btbEntryMatch(ent[TheEntry], key)
          /\ (last.op = "match" /\ ~ent[TheEntry].valid) => ~last.hit

\* a SimpleBTB emptied after use is asked for the key that equals the tag and
\* thread id its invalid entries carry, and misses
C29_Witness ==
    /\ kind = "SimpleBTB" /\ last.op = "lookup"
    /\ last.key = Key(MaxAddr, InitTid)
    /\ TagOf(last.key) = MaxAddr
    /\ AllInvalid /\ curTick > 0
    /\ \A id \in DOMAIN ent : ent[id].tag = MaxAddr /\ ent[id].tid = last.key.tid
    /\ last.ret = NoEntry

\* C30: after BTBEntry::insert(key) the confidence counter equals confInit,
\* whatever incConfidence, decConfidence and setConfidence calls were applied
\* to the entry before it was invalidated and refilled.
C30_InsertResetsConfidence ==
    (kind = "BTBEntry" /\ last.op = "insert" /\ last.returned) =>
        /\ ent[TheEntry].valid
        /\ ent[TheEntry].confidence = ent[TheEntry].confInit

\* the entry went into insert with a confidence other than confInit
C30_Witness ==
    /\ kind = "BTBEntry" /\ last.op = "insert" /\ last.returned
    /\ last.payload # ent[TheEntry].confInit
    /\ ent[TheEntry].confidence = ent[TheEntry].confInit

====
